---- MODULE Spec2Model ----
(***************************************************************************)
(* A model of src/src/pathx.c: path expressions over a labelled tree.      *)
(*                                                                         *)
(* The tree is the C structure: every node has label, value, parent,       *)
(* children (head of the child list) and next (next sibling); the root is  *)
(* its own parent.  A path expression is parsed character by character     *)
(* into steps and expressions, type-checked, and evaluated with the value  *)
(* pool and the value stack of struct state.                               *)
(***************************************************************************)
EXTENDS Integers, Sequences, FiniteSets, TLC

\* Bounds of the model.
MaxNodes == 6     \* node identities available to the tree (initial and created)
MaxInit == 2      \* initial trees: every shape and labelling with up to MaxInit nodes

\* NULL pointer to a tree node; NullStr stands for a NULL char*.
NULL == 0
NullStr == "<NULL>"
Node == 1..MaxNodes

\* '\0', the end of the text
NUL == ""

(***************************************************************************)
(* Strings                                                                 *)
(***************************************************************************)
\* We consider NULL and the empty string to be equal
streqx(s1, s2) ==
  IF s1 = NullStr THEN (s2 = NullStr \/ s2 = "")
  ELSE IF s2 = NullStr THEN s1 = ""
  ELSE s1 = s2

(***************************************************************************)
(* The tree (struct tree, used through label, value, parent, children,     *)
(* next)                                                                   *)
(***************************************************************************)
Min(S) == CHOOSE x \in S : \A y \in S : x <= y
Max(S) == CHOOSE x \in S : \A y \in S : x >= y

\* The tree with nodes 1..n, node 1 the root, par[i] < i the parent of i > 1,
\* siblings linked in increasing order.
MkTree(n, par, lab, val) ==
  [label    |-> [i \in Node |-> IF i \in 2..n THEN lab[i] ELSE NullStr],
   value    |-> [i \in Node |-> IF i \in 2..n THEN val[i] ELSE NullStr],
   parent   |-> [i \in Node |-> IF i = 1 THEN 1 ELSE IF i <= n THEN par[i] ELSE NULL],
   children |-> [i \in Node |->
                   LET K == {c \in 2..n : par[c] = i}
                   IN IF i <= n /\ K # {} THEN Min(K) ELSE NULL],
   next     |-> [i \in Node |->
                   LET K == {c \in 2..n : i \in 2..n /\ c > i /\ par[c] = par[i]}
                   IN IF K # {} THEN Min(K) ELSE NULL]]

\* Values of the nodes 2, 3, ...: all absent, or this pattern.
ValuePattern == <<NullStr, "1", "2", "1", "", "2", "1", "2", "1">>
NoValues == [i \in 1..9 |-> NullStr]

TreesOfSize(n) ==
  { MkTree(n, par, lab, val) :
      par \in {p \in [2..n -> 1..n] : \A i \in 2..n : p[i] < i},
      lab \in [2..n -> {"a", "b"}], val \in {ValuePattern, NoValues} }
SmallTrees == UNION { TreesOfSize(n) : n \in 1..MaxInit }

\* root - a - a - b (nested nodes of the same label),
\* root with children a="1", b="2", a="1", the second a with a child b, and
\* root with children a="2", a="1", a="1".
ExtraTrees ==
  { MkTree(4, <<0, 1, 2, 3>>, <<NullStr, "a", "a", "b">>, NoValues),
    MkTree(5, <<0, 1, 1, 1, 4>>, <<NullStr, "a", "b", "a", "b">>,
           <<NullStr, "1", "2", "1", NullStr>>),
    MkTree(4, <<0, 1, 1, 1>>, <<NullStr, "a", "a", "a">>,
           <<NullStr, "2", "1", "1">>) }

InitNodes(t) == {n \in Node : t.parent[n] # NULL}

\* The children of n in sibling order, following the next links.
RECURSIVE Siblings(_, _)
Siblings(t, n) == IF n = NULL THEN <<>> ELSE <<n>> \o Siblings(t, t.next[n])
Kids(t, n) == Siblings(t, t.children[n])

Range(s) == {s[i] : i \in 1..Len(s)}

\* A local variable: F applied to the value v, which is computed once.
Bind(v, F(_)) == F(v)

(***************************************************************************)
(* Axes and steps (enum axis, struct step)                                 *)
(***************************************************************************)
SELF == "self"
CHILD == "child"
DESCENDANT == "descendant"
DESCENDANT_OR_SELF == "descendant-or-self"
PARENT == "parent"
ANCESTOR == "ancestor"
ROOT == "root"
\* This array is indexed by enum axis
axis_names == <<SELF, CHILD, DESCENDANT, DESCENDANT_OR_SELF, PARENT, ANCESTOR, ROOT>>

\* A step; predicates is the sequence pred->exprs, <<>> for predicates == NULL.
Step(axis, name, predicates) == [axis |-> axis, name |-> name, predicates |-> predicates]
\* make_step: ALLOC zeroes name and predicates
make_step(axis) == Step(axis, NullStr, <<>>)

step_matches_any(step, t, n) == TRUE

step_matches(step, t, n) ==
  step.name = NullStr \/ streqx(step.name, t.label[n])

\* while (ctx->parent != ctx) ctx = ctx->parent;
RECURSIVE climb_root(_, _)
climb_root(t, ctx) ==
  IF t.parent[ctx] # ctx THEN climb_root(t, t.parent[ctx]) ELSE ctx

\* while (node->next == NULL && node != ctx) node = node->parent;
RECURSIVE climb_up(_, _, _)
climb_up(t, ctx, node) ==
  IF t.next[node] = NULL /\ node # ctx THEN climb_up(t, ctx, t.parent[node]) ELSE node

\* The descendant axes move to the next sibling of a node without children.
axis_next_sibling(t, axis, ctx, node) ==
  CASE axis = SELF -> NULL
    [] axis = CHILD -> t.next[node]
    [] axis \in {DESCENDANT, DESCENDANT_OR_SELF} ->
         IF t.children[node] # NULL THEN t.children[node] ELSE t.next[node]
    [] axis \in {PARENT, ROOT} -> NULL
    [] axis = ANCESTOR ->
         IF t.parent[node] = node THEN NULL ELSE t.parent[node]

\* One turn of the switch in step_next: the node the axis moves to from node.
axis_next(t, axis, ctx, node) ==
  CASE axis = SELF -> NULL
    [] axis = CHILD -> t.next[node]
    [] axis \in {DESCENDANT, DESCENDANT_OR_SELF} ->
         IF t.children[node] # NULL THEN t.children[node]
         ELSE LET up == climb_up(t, ctx, node)
              IN IF up = ctx THEN NULL ELSE t.next[up]
    [] axis \in {PARENT, ROOT} -> NULL
    [] axis = ANCESTOR ->
         IF t.parent[node] = node THEN NULL ELSE t.parent[node]

RECURSIVE step_next(_, _, _, _)
step_next(t, step, ctx, node) ==
  IF node = NULL THEN NULL
  ELSE LET n == axis_next(t, step.axis, ctx, node)
       IN IF n # NULL /\ step_matches(step, t, n) THEN n
          ELSE step_next(t, step, ctx, n)

step_first(t, step, ctx) ==
  LET c == IF step.axis = ROOT THEN climb_root(t, ctx) ELSE ctx
      node == CASE step.axis \in {SELF, DESCENDANT_OR_SELF} -> ctx
                [] step.axis \in {CHILD, DESCENDANT} -> t.children[ctx]
                [] step.axis \in {PARENT, ANCESTOR} -> t.parent[ctx]
                [] step.axis = ROOT -> c
  IN IF node = NULL THEN NULL
     ELSE IF step_matches(step, t, node) THEN node
     ELSE step_next(t, step, c, node)

\* for (node = step_first(step, w); node != NULL; node = step_next(step, w, node))
\*     ns_add(next, node, state);
RECURSIVE step_iterate(_, _, _, _)
step_iterate(t, step, w, node) ==
  IF node = NULL THEN <<>>
  ELSE <<node>> \o step_iterate(t, step, w, step_next(t, step, w, node))

step_nodes(t, step, w) == step_iterate(t, step, w, step_first(t, step, w))

\* The expansion loop of ns_from_locpath over the working set, from entry i on.
RECURSIVE expand_from(_, _, _, _)
expand_from(t, step, work, i) ==
  IF i > Len(work) THEN <<>>
  ELSE step_nodes(t, step, work[i]) \o expand_from(t, step, work, i + 1)

expand(t, step, work) == expand_from(t, step, work, 1)

(***************************************************************************)
(* Values and the evaluation state (struct value, struct state)            *)
(***************************************************************************)
PATHX_NOERROR == "NOERROR"
PATHX_ENAME == "ENAME"
PATHX_ESTRING == "ESTRING"
PATHX_ENUMBER == "ENUMBER"
PATHX_EDELIM == "EDELIM"
PATHX_ENOMEM == "ENOMEM"
PATHX_EPRED == "EPRED"
PATHX_EINTERNAL == "EINTERNAL"
PATHX_ETYPE == "ETYPE"

T_NONE == "T_NONE"
T_NODESET == "T_NODESET"
T_BOOLEAN == "T_BOOLEAN"
T_NUMBER == "T_NUMBER"
T_STRING == "T_STRING"

E_LOCPATH == "E_LOCPATH"
E_BINARY == "E_BINARY"
E_VALUE == "E_VALUE"
E_APP == "E_APP"

OP_EQ == "OP_EQ"
OP_NEQ == "OP_NEQ"
OP_PLUS == "OP_PLUS"
OP_MINUS == "OP_MINUS"
OP_STAR == "OP_STAR"

\* struct value: the tag and the member of the union it selects.
Value(tag, nodeset, number, string, boolval) ==
  [tag |-> tag, nodeset |-> nodeset, number |-> number, string |-> string,
   boolval |-> boolval]
BoolValue(b) == Value(T_BOOLEAN, <<>>, 0, NullStr, b)

\* struct expr, one record shape per tag.
LocPathExpr(locpath) == [tag |-> E_LOCPATH, locpath |-> locpath]
BinaryExpr(op, left, right) == [tag |-> E_BINARY, op |-> op, left |-> left, right |-> right]
ValueExpr(value_ind) == [tag |-> E_VALUE, value_ind |-> value_ind]
AppExpr(func, args) == [tag |-> E_APP, func |-> func, args |-> args]

\* builtin_funcs
builtin_funcs ==
  << [name |-> "last", arity |-> 0, type |-> T_NUMBER],
     [name |-> "position", arity |-> 0, type |-> T_NUMBER] >>

\* The size pathx_parse gives the value pool.
InitPoolSize == 8

\* struct state after the set-up of pathx_parse.  value_pool[i+1] is the C
\* value_pool[i]; values and exprs are the two stacks, bottom first.
\* reallocs counts the reallocations of the pool (a pointer into the pool
\* taken before the last one dangles); oracle is what a read through a
\* dangling pointer yields in this run (the old bytes, or some number) and
\* whether the reallocation of the pool fails in this run; stale records
\* that such a read happened; steplog records every step ns_from_locpath
\* expands and predlog every pass of its predicate loop.  errlog records
\* every error code STATE_ERROR sets, late that a stack was pushed or popped
\* while the error code was set, underflow that an empty stack was popped,
\* crashed that the call dereferenced NULL and never returned.
Intact == [intact |-> TRUE, number |-> 0, nomem |-> FALSE]
Garbage(n) == [intact |-> FALSE, number |-> n, nomem |-> FALSE]
NoMemory == [intact |-> TRUE, number |-> 0, nomem |-> TRUE]
NewState(txt) ==
  [errcode |-> PATHX_NOERROR, txt |-> txt, pos |-> 1,
   ctx |-> NULL, ctx_pos |-> 0, ctx_len |-> 0,
   value_pool |-> <<BoolValue(FALSE), BoolValue(TRUE)>>,
   value_pool_size |-> InitPoolSize,
   values |-> <<>>, exprs |-> <<>>,
   reallocs |-> 0, oracle |-> Intact, stale |-> FALSE,
   steplog |-> <<>>, predlog |-> <<>>,
   errlog |-> <<>>, late |-> FALSE, underflow |-> FALSE, crashed |-> FALSE]

HAS_ERROR(st) == st.errcode # PATHX_NOERROR
STATE_ERROR(st, err) == [st EXCEPT !.errcode = err, !.errlog = Append(@, err)]

\* make_value: [st, vind]; the new slot has its tag and an unset payload.
make_value(tag, st) ==
  LET used == Len(st.value_pool)
      grow == used >= st.value_pool_size
      new_size == 2 * st.value_pool_size
  IN IF grow /\ (new_size <= st.value_pool_size \/ st.oracle.nomem)
     THEN [st |-> STATE_ERROR(st, PATHX_ENOMEM), vind |-> 0]
     ELSE [st |-> [st EXCEPT
                     !.value_pool = Append(@, Value(tag, <<>>, 0, NullStr, FALSE)),
                     !.value_pool_size = IF grow THEN new_size ELSE @,
                     !.reallocs = IF grow THEN @ + 1 ELSE @],
           vind |-> used]

\* pop_value_ind: [st, vind]
pop_value_ind(st) ==
  IF Len(st.values) > 0
  THEN [st |-> [st EXCEPT !.values = SubSeq(@, 1, Len(@) - 1),
                          !.late = @ \/ HAS_ERROR(st)],
        vind |-> st.values[Len(st.values)]]
  ELSE [st |-> [STATE_ERROR(st, PATHX_EINTERNAL) EXCEPT !.underflow = TRUE],
        vind |-> 0]

push_value(vind, st) ==
  [st EXCEPT !.values = Append(@, vind), !.late = @ \/ HAS_ERROR(st)]

push_boolean_value(b, st) == push_value(IF b THEN 1 ELSE 0, st)

pool_at(st, vind) == st.value_pool[vind + 1]

set_number(st, vind, n) == [st EXCEPT !.value_pool[vind + 1].number = n]
set_nodeset(st, vind, ns) == [st EXCEPT !.value_pool[vind + 1].nodeset = ns]
set_string(st, vind, s) == [st EXCEPT !.value_pool[vind + 1].string = s]

(***************************************************************************)
(* Evaluation                                                              *)
(***************************************************************************)
func_last(st) ==
  LET m == make_value(T_NUMBER, st)
  IN IF HAS_ERROR(m.st) THEN m.st
     ELSE push_value(m.vind, set_number(m.st, m.vind, st.ctx_len))

func_position_len(st) == func_last(st)

func_position(st) ==
  LET m == make_value(T_NUMBER, st)
  IN IF HAS_ERROR(m.st) THEN m.st
     ELSE push_value(m.vind, set_number(m.st, m.vind, st.ctx_pos))

calc_eq_every_pair(t, ns1, ns2, neq) ==
  \A i1 \in 1..Len(ns1) : \A i2 \in 1..Len(ns2) :
     IF neq THEN ~streqx(t.value[ns1[i1]], t.value[ns2[i2]])
     ELSE streqx(t.value[ns1[i1]], t.value[ns2[i2]])

calc_eq_nodeset_nodeset(t, ns1, ns2, neq) ==
  \E i1 \in 1..Len(ns1) : \E i2 \in 1..Len(ns2) :
     IF neq THEN ~streqx(t.value[ns1[i1]], t.value[ns2[i2]])
     ELSE streqx(t.value[ns1[i1]], t.value[ns2[i2]])

calc_eq_nodeset_string(t, ns, s, neq) ==
  \E i \in 1..Len(ns) :
     IF neq THEN ~streqx(t.value[ns[i]], s) ELSE streqx(t.value[ns[i]], s)

eval_eq(t, st, neq) ==
  LET pr == pop_value_ind(st)
      pl == pop_value_ind(pr.st)
      r == pool_at(st, pr.vind)
      l == pool_at(st, pl.vind)
      res == IF l.tag = T_NODESET /\ r.tag = T_NODESET
               THEN calc_eq_nodeset_nodeset(t, l.nodeset, r.nodeset, neq)
             ELSE IF l.tag = T_NODESET
               THEN calc_eq_nodeset_string(t, l.nodeset, r.string, neq)
             ELSE IF r.tag = T_NODESET
               THEN calc_eq_nodeset_string(t, r.nodeset, l.string, neq)
             ELSE IF l.tag = T_NUMBER /\ r.tag = T_NUMBER
               THEN (IF neq THEN l.number # r.number ELSE l.number = r.number)
             ELSE streqx(l.string, r.string)
  IN IF HAS_ERROR(pl.st) THEN pl.st
     ELSE push_boolean_value(res, pl.st)

\* eval_arith reads l->number and r->number after make_value: when make_value
\* reallocated the pool both pointers dangle, and the read yields the oracle.
eval_arith(st, op) ==
  LET pr == pop_value_ind(st)
      pl == pop_value_ind(pr.st)
      m == make_value(T_NUMBER, pl.st)
      dangling == m.st.reallocs > st.reallocs
      rd(vind) == IF dangling /\ ~st.oracle.intact THEN st.oracle.number
                  ELSE pool_at(st, vind).number
      l == rd(pl.vind)
      r == rd(pr.vind)
      res == CASE op = OP_PLUS -> l + r
               [] op = OP_MINUS -> l - r
               [] op = OP_STAR -> l * r
  IN IF HAS_ERROR(m.st) THEN m.st
     ELSE push_value(m.vind,
            [set_number(m.st, m.vind, res) EXCEPT !.stale = @ \/ dangling])

\* The element i (from 1) of s removed: the memmove of the predicate loop.
RemoveAt(s, i) == SubSeq(s, 1, i - 1) \o SubSeq(s, i + 1, Len(s))

RECURSIVE eval_expr(_, _, _)
RECURSIVE ns_from_locpath(_, _, _)

eval_binary(t, expr, st) ==
  Bind(eval_expr(t, expr.right, eval_expr(t, expr.left, st)), LAMBDA s2 :
    IF HAS_ERROR(s2) THEN s2
    ELSE CASE expr.op = OP_EQ -> eval_eq(t, s2, FALSE)
           [] expr.op = OP_NEQ -> eval_eq(t, s2, TRUE)
           [] expr.op \in {OP_MINUS, OP_PLUS, OP_STAR} -> eval_arith(s2, expr.op))

\* Both built-in functions have arity 0: the loop over the arguments is empty.
eval_app(t, expr, st) ==
  IF expr.func.name = "last" THEN func_last(st) ELSE func_position(st)

\* eval_pred: [st, keep].  pop_value returns NULL when the error code is
\* set, by eval_expr or by the pop itself; v->tag then dereferences NULL.
eval_pred(t, expr, st) ==
  Bind(eval_expr(t, expr, st), LAMBDA s1 :
    LET p == pop_value_ind(s1)
        v == pool_at(s1, p.vind)
    IN IF HAS_ERROR(p.st)
       THEN [st |-> [p.st EXCEPT !.crashed = TRUE], keep |-> FALSE]
       ELSE [st |-> p.st,
             keep |-> CASE v.tag = T_BOOLEAN -> v.boolval
                        [] v.tag = T_NUMBER -> p.st.ctx_pos = v.number
                        [] v.tag = T_NODESET -> Len(v.nodeset) > 0
                        [] OTHER -> FALSE])

\* The loop over the entries of next for one predicate (i counts from 0):
\* [st, next, evals]; evals records every call of eval_pred.
RECURSIVE pred_loop(_, _, _, _, _, _)
pred_loop(t, e, next, i, st, evals) ==
  IF ~(i < Len(next)) THEN [st |-> st, next |-> next, evals |-> evals]
  ELSE Bind(eval_pred(t, e, [st EXCEPT !.ctx = next[i + 1]]), LAMBDA r :
         LET ev == [ctx |-> next[i + 1], ctx_pos |-> st.ctx_pos,
                    ctx_len |-> st.ctx_len, keep |-> r.keep]
             s2 == [r.st EXCEPT !.ctx_pos = @ + 1]
         IN IF r.st.crashed THEN [st |-> r.st, next |-> next, evals |-> evals]
            ELSE IF r.keep
            THEN pred_loop(t, e, next, i + 1, s2, Append(evals, ev))
            ELSE pred_loop(t, e, RemoveAt(next, i + 1), i, s2, Append(evals, ev)))

\* Every predicate but the last is applied for its effects only: the next
\* one runs on the set as it was.
RECURSIVE apply_preds_same_set(_, _, _, _, _)
apply_preds_same_set(t, step, p, next, st) ==
  IF p > Len(step.predicates) THEN [st |-> st, next |-> next]
  ELSE Bind(pred_loop(t, step.predicates[p], next, 0,
                      [st EXCEPT !.ctx_len = Len(next), !.ctx_pos = 1], <<>>),
         LAMBDA r :
           IF r.st.crashed THEN [st |-> r.st, next |-> r.next]
           ELSE apply_preds_same_set(t, step, p + 1,
             IF p < Len(step.predicates) THEN next ELSE r.next,
             [r.st EXCEPT !.predlog =
                Append(@, [expr |-> step.predicates[p], before |-> next,
                           evals |-> r.evals, after |-> r.next])]))

\* The loop over the predicates of a step, from predicate p on: [st, next]
RECURSIVE apply_preds(_, _, _, _, _)
apply_preds(t, step, p, next, st) ==
  IF p > Len(step.predicates) THEN [st |-> st, next |-> next]
  ELSE Bind(pred_loop(t, step.predicates[p], next, 0,
                      [st EXCEPT !.ctx_len = Len(next), !.ctx_pos = 1], <<>>),
         LAMBDA r :
           IF r.st.crashed THEN [st |-> r.st, next |-> r.next]
           ELSE apply_preds(t, step, p + 1, r.next,
             [r.st EXCEPT !.predlog =
                Append(@, [expr |-> step.predicates[p], before |-> next,
                           evals |-> r.evals, after |-> r.next])]))

\* The loop over the steps, from step k on (cur_ns = k - 1): [st, ns]
RECURSIVE locpath_steps(_, _, _, _, _)
locpath_steps(t, lp, k, ns, st) ==
  IF k > Len(lp) THEN [st |-> st, ns |-> ns]
  ELSE Bind(expand(t, lp[k], ns[k]), LAMBDA next :
         Bind(apply_preds(t, lp[k], 1, next, st), LAMBDA r :
           IF r.st.crashed THEN [st |-> r.st, ns |-> ns]
           ELSE locpath_steps(t, lp, k + 1, [ns EXCEPT ![k + 1] = r.next],
             [r.st EXCEPT !.steplog =
                Append(@, [step |-> lp[k], work |-> ns[k], next |-> next,
                           filtered |-> r.next])])))

\* The context is left as the last predicate set it.
ns_from_locpath_as_left(t, lp, st) ==
  IF HAS_ERROR(st) THEN [st |-> st, ns |-> <<>>, maxns |-> Len(lp)]
  ELSE
  Bind(locpath_steps(t, lp, 1,
         [i \in 1..(Len(lp) + 1) |-> IF i = 1 THEN <<st.ctx>> ELSE <<>>], st),
    LAMBDA r : [st |-> r.st, ns |-> r.ns, maxns |-> Len(lp)])

\* ns_from_locpath: [st, ns, maxns]; ns[i+1] is the node set i of the C array.
\* With the error code set it leaves at the test after the first
\* make_nodeset and frees the array: ns is <<>>.
ns_from_locpath(t, lp, st) ==
  IF HAS_ERROR(st) THEN [st |-> st, ns |-> <<>>, maxns |-> Len(lp)]
  ELSE
  Bind(locpath_steps(t, lp, 1,
         [i \in 1..(Len(lp) + 1) |-> IF i = 1 THEN <<st.ctx>> ELSE <<>>], st),
    LAMBDA r :
      [st |-> [r.st EXCEPT !.ctx = st.ctx, !.ctx_pos = st.ctx_pos,
                           !.ctx_len = st.ctx_len],
       ns |-> r.ns, maxns |-> Len(lp)])

eval_locpath(t, lp, st) ==
  Bind(ns_from_locpath(t, lp, st), LAMBDA r :
    LET m == make_value(T_NODESET, r.st)
    IN IF HAS_ERROR(r.st) THEN r.st
       ELSE IF HAS_ERROR(m.st) THEN m.st
       ELSE push_value(m.vind, set_nodeset(m.st, m.vind, r.ns[r.maxns + 1])))

eval_expr(t, expr, st) ==
  IF HAS_ERROR(st) THEN st
  ELSE CASE expr.tag = E_LOCPATH -> eval_locpath(t, expr.locpath, st)
         [] expr.tag = E_BINARY -> eval_binary(t, expr, st)
         [] expr.tag = E_VALUE -> push_value(expr.value_ind, st)
         [] expr.tag = E_APP -> eval_app(t, expr, st)

(***************************************************************************)
(* Utility functions for the parser.  The text is a string, pos counts     *)
(* from 1, and the character after the last one is NUL.                    *)
(***************************************************************************)
CharAt(txt, p) == IF p >= 1 /\ p <= Len(txt) THEN SubSeq(txt, p, p) ELSE NUL
At(st) == CharAt(st.txt, st.pos)
advance(st, n) == [st EXCEPT !.pos = @ + n]

isspace(c) == c \in {" ", "\t", "\n", "\r", "\f"}
Digits == {"0", "1", "2", "3", "4", "5", "6", "7", "8", "9"}
isalpha(c) ==
  c \in
  {"a", "b", "c", "d", "e", "f", "g", "h", "i", "j", "k", "l", "m", "n", "o",
   "p", "q", "r", "s", "t", "u", "v", "w", "x", "y", "z",
   "A", "B", "C", "D", "E", "F", "G", "H", "I", "J", "K", "L", "M", "N", "O",
   "P", "Q", "R", "S", "T", "U", "V", "W", "X", "Y", "Z"}

\* The first position from p on that holds no white space.
RECURSIVE skip_space(_, _)
skip_space(txt, p) == IF isspace(CharAt(txt, p)) THEN skip_space(txt, p + 1) ELSE p

skipws(st) == [st EXCEPT !.pos = skip_space(st.txt, @)]

\* match: [st, ok]
match(st, m) ==
  Bind(skipws(st), LAMBDA s1 :
    IF At(s1) = NUL THEN [st |-> s1, ok |-> FALSE]
    ELSE IF At(s1) = m THEN [st |-> advance(s1, 1), ok |-> TRUE]
    ELSE [st |-> s1, ok |-> FALSE])

\* strchr(chars, *state->pos) != NULL: strchr finds the terminating '\0' too.
peek(st, chars) == At(st) = NUL \/ At(st) \in chars

\* STREQLEN(txt + p - 1, token, strlen(token))
starts_with(txt, p, token) ==
  p + Len(token) - 1 <= Len(txt) /\ SubSeq(txt, p, p + Len(token) - 1) = token

\* looking_at: [st, ok]
looking_at(st, token, follow) ==
  LET p == skip_space(st.txt, st.pos + Len(token))
  IN IF starts_with(st.txt, st.pos, token) /\ starts_with(st.txt, p, follow)
     THEN [st |-> [st EXCEPT !.pos = p + Len(follow)], ok |-> TRUE]
     ELSE [st |-> st, ok |-> FALSE]

(***************************************************************************)
(* The parser                                                              *)
(***************************************************************************)
\* pop_expr: [st, expr]; the stack is never empty where the parser pops.
pop_expr(st) ==
  IF Len(st.exprs) > 0
  THEN [st |-> [st EXCEPT !.exprs = SubSeq(@, 1, Len(@) - 1),
                          !.late = @ \/ HAS_ERROR(st)],
        expr |-> st.exprs[Len(st.exprs)]]
  ELSE [st |-> [STATE_ERROR(st, PATHX_EINTERNAL) EXCEPT !.underflow = TRUE],
        expr |-> ValueExpr(0)]

push_expr(expr, st) ==
  [st EXCEPT !.exprs = Append(@, expr), !.late = @ \/ HAS_ERROR(st)]

push_new_binary_op(op, st) ==
  Bind(pop_expr(st), LAMBDA r :
    Bind(pop_expr(r.st), LAMBDA l :
      push_expr(BinaryExpr(op, l.expr, r.expr), l.st)))

\* The scan of parse_name from p: [pos, ok]; a backslash before NUL is an error.
RECURSIVE name_scan(_, _)
name_scan(txt, p) ==
  LET c == CharAt(txt, p)
  IN IF c = NUL \/ c = "[" \/ c = "/" \/ c = "]" \/ c = "=" \/ isspace(c)
     THEN [pos |-> p, ok |-> TRUE]
     ELSE IF c = "\\"
     THEN (IF CharAt(txt, p + 1) = NUL THEN [pos |-> p + 1, ok |-> FALSE]
           ELSE name_scan(txt, p + 2))
     ELSE name_scan(txt, p + 1)

\* The copy loop of parse_name: every backslash is dropped and the character
\* after it kept.
RECURSIVE unescape(_)
unescape(s) ==
  IF s = "" THEN ""
  ELSE IF SubSeq(s, 1, 1) = "\\"
  THEN CharAt(s, 2) \o unescape(SubSeq(s, 3, Len(s)))
  ELSE SubSeq(s, 1, 1) \o unescape(SubSeq(s, 2, Len(s)))

\* parse_name: [st, name]
parse_name(st) ==
  Bind(name_scan(st.txt, st.pos), LAMBDA e :
    IF ~e.ok \/ e.pos = st.pos
    THEN [st |-> STATE_ERROR([st EXCEPT !.pos = e.pos], PATHX_ENAME),
          name |-> NullStr]
    ELSE [st |-> [st EXCEPT !.pos = e.pos],
          name |-> unescape(SubSeq(st.txt, st.pos, e.pos - 1))])

RECURSIVE parse_expr(_)

\* The while loop of parse_predicates, nexpr predicates read so far: [st, nexpr]
RECURSIVE predicates_loop(_, _)
predicates_loop(st, nexpr) ==
  Bind(match(st, "["), LAMBDA m :
    IF ~m.ok THEN [st |-> m.st, nexpr |-> nexpr]
    ELSE Bind(parse_expr(m.st), LAMBDA s1 :
      IF HAS_ERROR(s1) THEN [st |-> s1, nexpr |-> nexpr + 1]
      ELSE Bind(match(s1, "]"), LAMBDA m2 :
        IF ~m2.ok
        THEN [st |-> STATE_ERROR(m2.st, PATHX_EPRED), nexpr |-> nexpr + 1]
        ELSE predicates_loop(skipws(m2.st), nexpr + 1))))

\* parse_predicates: [st, pred]; pred is <<>> for NULL, else the top nexpr
\* expressions of the stack in the order they were pushed.
parse_predicates(st) ==
  Bind(predicates_loop(st, 0), LAMBDA r :
    LET n == Len(r.st.exprs)
    IN IF HAS_ERROR(r.st) \/ r.nexpr = 0 THEN [st |-> r.st, pred |-> <<>>]
       ELSE [st |-> [r.st EXCEPT !.exprs = SubSeq(@, 1, n - r.nexpr)],
             pred |-> SubSeq(r.st.exprs, n - r.nexpr + 1, n)])

\* The loop over axis_names in parse_step, from name i on: [st, axis]
RECURSIVE find_axis(_, _)
find_axis(st, i) ==
  IF i > Len(axis_names) THEN [st |-> st, axis |-> CHILD]
  ELSE Bind(looking_at(st, axis_names[i], "::"), LAMBDA l :
         IF l.ok THEN [st |-> l.st, axis |-> axis_names[i]]
         ELSE find_axis(st, i + 1))

\* The name test of parse_step: [st, name]
name_test(st) ==
  Bind(match(st, "*"), LAMBDA star :
    IF star.ok THEN [st |-> star.st, name |-> NullStr]
    ELSE parse_name(star.st))

\* parse_step: [st, step]; the step is of no use when st has an error.
parse_step(st) ==
  IF At(st) = "." /\ CharAt(st.txt, st.pos + 1) = "."
  THEN [st |-> advance(st, 2), step |-> make_step(PARENT)]
  ELSE Bind(match(st, "."), LAMBDA m :
    IF m.ok THEN [st |-> m.st, step |-> make_step(SELF)]
    ELSE Bind(find_axis(m.st, 1), LAMBDA a :
      Bind(name_test(a.st), LAMBDA nm :
        IF HAS_ERROR(nm.st) THEN [st |-> nm.st, step |-> make_step(a.axis)]
        ELSE Bind(parse_predicates(nm.st), LAMBDA pp :
          [st |-> pp.st, step |-> Step(a.axis, nm.name, pp.pred)]))))

\* The while loop of parse_relative_location_path: [st, locpath]
\* A locpath is the sequence of its steps; <<>> stands for locpath == NULL.
RECURSIVE relative_loop(_, _)
relative_loop(st, steps) ==
  Bind(match(st, "/"), LAMBDA m :
    IF ~m.ok THEN [st |-> m.st, locpath |-> steps]
    ELSE Bind(parse_step(IF At(m.st) = "/" THEN advance(m.st, 1) ELSE m.st),
      LAMBDA ps :
        IF HAS_ERROR(ps.st) THEN [st |-> ps.st, locpath |-> <<>>]
        ELSE relative_loop(ps.st,
               Append(IF At(m.st) = "/"
                      THEN Append(steps, make_step(DESCENDANT_OR_SELF))
                      ELSE steps, ps.step))))

\* The first step of parse_relative_location_path and its loop.
first_step(f) ==
  IF HAS_ERROR(f.st) THEN [st |-> f.st, locpath |-> <<>>]
  ELSE relative_loop(f.st, <<f.step>>)

parse_relative_location_path(st) == first_step(parse_step(st))

relative_only(steps) == steps

\* '/' RelativeLocationPath?: make_step(ROOT) and list_cons
absolute_steps(steps) == <<make_step(ROOT)>> \o steps

\* '//' RelativeLocationPath: make_step(DESCENDANT_OR_SELF) and list_cons
abbreviated_absolute_steps(steps) == <<make_step(DESCENDANT_OR_SELF)>> \o steps

\* parse_location_path after match(state, '/') gave m.  The three branches
\* read the relative path from m.st, one character further after "//"; a
\* lone '/' at the end of the text reads none.
parse_location_path(st) ==
  Bind(match(st, "/"), LAMBDA m :
    LET abbr == m.ok /\ At(m.st) = "/"
        lone == m.ok /\ At(m.st) = NUL
    IN Bind(IF lone THEN [st |-> m.st, locpath |-> <<>>]
            ELSE parse_relative_location_path(
                   IF abbr THEN advance(m.st, 1) ELSE m.st),
         LAMBDA r :
           IF ~m.ok THEN push_expr(LocPathExpr(r.locpath), r.st)
           ELSE IF HAS_ERROR(r.st) THEN r.st
           ELSE IF abbr
           THEN push_expr(LocPathExpr(abbreviated_absolute_steps(r.locpath)), r.st)
           ELSE push_expr(LocPathExpr(absolute_steps(r.locpath)), r.st)))

\* The digits from p on: the position after them.
RECURSIVE digits_end(_, _)
digits_end(txt, p) == IF CharAt(txt, p) \in Digits THEN digits_end(txt, p + 1) ELSE p

DigitValue(c) ==
  CASE c = "0" -> 0 [] c = "1" -> 1 [] c = "2" -> 2 [] c = "3" -> 3 [] c = "4" -> 4
    [] c = "5" -> 5 [] c = "6" -> 6 [] c = "7" -> 7 [] c = "8" -> 8 [] c = "9" -> 9

RECURSIVE digits_value(_)
digits_value(s) ==
  IF s = "" THEN 0
  ELSE 10 * digits_value(SubSeq(s, 1, Len(s) - 1)) + DigitValue(SubSeq(s, Len(s), Len(s)))

\* Longer runs of digits are not among the texts of the model: strtoul reads
\* them, and (int) val != val rejects those up to ULONG_MAX - 2^31.
MaxDigits == 9

parse_number(st) ==
  LET e == digits_end(st.txt, st.pos)
      val == digits_value(SubSeq(st.txt, st.pos, e - 1))
      m == make_value(T_NUMBER, [st EXCEPT !.pos = e])
  IN IF e = st.pos \/ e - st.pos > MaxDigits THEN STATE_ERROR(st, PATHX_ENUMBER)
     ELSE IF HAS_ERROR(m.st) THEN m.st
     ELSE push_expr(ValueExpr(m.vind), set_number(m.st, m.vind, val))

\* The position of delim from p on, or of NUL.
RECURSIVE literal_end(_, _, _)
literal_end(txt, p, delim) ==
  IF CharAt(txt, p) # NUL /\ CharAt(txt, p) # delim THEN literal_end(txt, p + 1, delim)
  ELSE p

parse_literal(st) ==
  LET delim == At(st)
      e == literal_end(st.txt, st.pos + 1, delim)
      s1 == [st EXCEPT !.pos = e]
      m == make_value(T_STRING, advance(s1, 1))
  IN IF delim \notin {"\"", "'"} THEN STATE_ERROR(st, PATHX_ESTRING)
     ELSE IF CharAt(st.txt, e) # delim THEN STATE_ERROR(s1, PATHX_EDELIM)
     ELSE IF HAS_ERROR(m.st) THEN m.st
     ELSE push_expr(ValueExpr(m.vind),
                    set_string(m.st, m.vind, SubSeq(st.txt, st.pos + 1, e - 1)))

\* The do-while loop over the arguments of a function call: [st, nargs]
RECURSIVE args_loop(_, _)
args_loop(st, nargs) ==
  Bind(parse_expr(st), LAMBDA s1 :
    IF HAS_ERROR(s1) THEN [st |-> s1, nargs |-> nargs + 1]
    ELSE Bind(match(s1, ","), LAMBDA m :
      IF m.ok THEN args_loop(m.st, nargs + 1)
      ELSE [st |-> m.st, nargs |-> nargs + 1]))

\* The arguments of parse_function_call up to the closing parenthesis:
\* [st, nargs]
call_args(st) ==
  Bind(match(st, ")"), LAMBDA close :
    IF close.ok THEN [st |-> close.st, nargs |-> 0]
    ELSE Bind(args_loop(close.st, 0), LAMBDA args :
      IF HAS_ERROR(args.st) THEN args
      ELSE Bind(match(args.st, ")"), LAMBDA close2 :
        [st |-> IF close2.ok THEN close2.st
                ELSE STATE_ERROR(close2.st, PATHX_EDELIM),
         nargs |-> args.nargs])))

parse_function_call(st) ==
  Bind(looking_at(st, builtin_funcs[1].name, "("), LAMBDA l1 :
    Bind(looking_at(l1.st, builtin_funcs[2].name, "("), LAMBDA l2 :
      IF ~l1.ok /\ ~l2.ok THEN STATE_ERROR(st, PATHX_ENAME)
      ELSE Bind(call_args(l2.st), LAMBDA a :
        LET func == IF l2.ok THEN builtin_funcs[2] ELSE builtin_funcs[1]
            n == Len(a.st.exprs)
        IN IF HAS_ERROR(a.st) THEN a.st
           ELSE IF a.nargs # func.arity THEN STATE_ERROR(a.st, PATHX_EDELIM)
           ELSE push_expr(AppExpr(func, SubSeq(a.st.exprs, n - a.nargs + 1, n)),
                          [a.st EXCEPT !.exprs = SubSeq(@, 1, n - a.nargs)]))))

parse_primary_expr(st) ==
  IF peek(st, {"'", "\""}) THEN parse_literal(st)
  ELSE IF peek(st, Digits) THEN parse_number(st)
  ELSE parse_function_call(st)

RECURSIVE skip_alpha(_, _)
skip_alpha(txt, p) == IF isalpha(CharAt(txt, p)) THEN skip_alpha(txt, p + 1) ELSE p

looking_at_primary_expr(st) ==
  \/ peek(st, {"'", "\""} \cup Digits)
  \/ CharAt(st.txt, skip_space(st.txt, skip_alpha(st.txt, st.pos))) = "("

parse_path_expr(st) ==
  IF looking_at_primary_expr(st) THEN parse_primary_expr(st)
  ELSE parse_location_path(st)

\* The while loop of parse_multiplicative_expr
RECURSIVE multiplicative_loop(_)
multiplicative_loop(st) ==
  Bind(match(st, "*"), LAMBDA m :
    IF ~m.ok THEN m.st
    ELSE Bind(parse_path_expr(m.st), LAMBDA s1 :
      IF HAS_ERROR(s1) THEN s1
      ELSE multiplicative_loop(push_new_binary_op(OP_STAR, s1))))

parse_multiplicative_expr(st) ==
  Bind(parse_path_expr(st), LAMBDA s1 :
    IF HAS_ERROR(s1) THEN s1 ELSE multiplicative_loop(s1))

\* The while loop of parse_additive_expr
RECURSIVE additive_loop(_)
additive_loop(st) ==
  IF ~(At(st) = "+" \/ At(st) = "-") THEN st
  ELSE Bind(parse_multiplicative_expr(skipws(advance(st, 1))), LAMBDA s1 :
    IF HAS_ERROR(s1) THEN s1
    ELSE additive_loop(
           push_new_binary_op(IF At(st) = "+" THEN OP_PLUS ELSE OP_MINUS, s1)))

parse_additive_expr(st) ==
  Bind(parse_multiplicative_expr(st), LAMBDA s1 :
    IF HAS_ERROR(s1) THEN s1 ELSE additive_loop(s1))

parse_equality_expr(st) ==
  Bind(parse_additive_expr(st), LAMBDA s1 :
    LET iseq == At(s1) = "="
        isneq == At(s1) = "!" /\ CharAt(s1.txt, s1.pos + 1) = "="
    IN IF HAS_ERROR(s1) THEN s1
       ELSE IF ~(iseq \/ isneq) THEN s1
       ELSE Bind(parse_additive_expr(skipws(advance(s1, IF iseq THEN 1 ELSE 2))),
         LAMBDA s2 :
           IF HAS_ERROR(s2) THEN s2
           ELSE push_new_binary_op(IF iseq THEN OP_EQ ELSE OP_NEQ, s2)))

parse_expr(st) == parse_equality_expr(skipws(st))

(***************************************************************************)
(* Typechecker.  check_expr: [st, type], type being the expr->type the     *)
(* check assigns (T_NONE where it assigns none).                           *)
(***************************************************************************)
RECURSIVE check_expr(_, _)

\* check_preds, from expression i on
RECURSIVE check_preds(_, _, _)
RECURSIVE check_preds_any_type(_, _, _)
check_preds_any_type(pred, i, st) ==
  IF i > Len(pred) THEN st
  ELSE LET c == check_expr(pred[i], st)
       IN IF HAS_ERROR(c.st) THEN c.st
          ELSE check_preds_any_type(pred, i + 1, c.st)

check_preds(pred, i, st) ==
  IF i > Len(pred) THEN st
  ELSE LET c == check_expr(pred[i], st)
       IN IF HAS_ERROR(c.st) THEN c.st
          ELSE IF c.type \notin {T_NODESET, T_NUMBER, T_BOOLEAN}
          THEN STATE_ERROR(c.st, PATHX_ETYPE)
          ELSE check_preds(pred, i + 1, c.st)

\* The loop over the steps of check_locpath, from step k on
RECURSIVE check_steps(_, _, _)
check_steps(lp, k, st) ==
  IF k > Len(lp) THEN st
  ELSE LET s1 == IF lp[k].predicates # <<>> THEN check_preds(lp[k].predicates, 1, st)
                 ELSE st
       IN IF HAS_ERROR(s1) THEN s1 ELSE check_steps(lp, k + 1, s1)

check_locpath(expr, st) ==
  LET s1 == check_steps(expr.locpath, 1, st)
  IN [st |-> s1, type |-> IF HAS_ERROR(s1) THEN T_NONE ELSE T_NODESET]

\* Both built-in functions have arity 0: there is no argument to check.
check_app(expr, st) == [st |-> st, type |-> expr.func.type]

check_binary(expr, st) ==
  LET cl == check_expr(expr.left, st)
      cr == check_expr(expr.right, cl.st)
      l == cl.type
      r == cr.type
      ok == IF expr.op \in {OP_EQ, OP_NEQ}
            THEN \/ (l \in {T_NODESET, T_STRING} /\ r \in {T_NODESET, T_STRING})
                 \/ (l = T_NUMBER /\ r = T_NUMBER)
            ELSE l = T_NUMBER /\ r = T_NUMBER
      res == IF expr.op \in {OP_EQ, OP_NEQ} THEN T_BOOLEAN ELSE T_NUMBER
  IN IF HAS_ERROR(cr.st) THEN [st |-> cr.st, type |-> T_NONE]
     ELSE IF ~ok THEN [st |-> STATE_ERROR(cr.st, PATHX_ETYPE), type |-> T_NONE]
     ELSE [st |-> cr.st, type |-> res]

check_expr(expr, st) ==
  IF HAS_ERROR(st) THEN [st |-> st, type |-> T_NONE]
  ELSE CASE expr.tag = E_LOCPATH -> check_locpath(expr, st)
         [] expr.tag = E_BINARY -> check_binary(expr, st)
         [] expr.tag = E_VALUE -> [st |-> st, type |-> pool_at(st, expr.value_ind).tag]
         [] expr.tag = E_APP -> check_app(expr, st)

(***************************************************************************)
(* struct pathx and the public functions                                   *)
(***************************************************************************)
\* pathx->nodeset: NULL until pathx_first has evaluated the path.
NoNodeset == [null |-> TRUE, nodes |-> <<>>]
Nodeset(nodes) == [null |-> FALSE, nodes |-> nodes]

\* pathx_parse: the struct pathx it builds; its return value is state.errcode.
pathx_parse(origin, txt) ==
  Bind(parse_expr(NewState(txt)), LAMBDA s1 :
    Bind(IF HAS_ERROR(s1) THEN s1
         ELSE IF Len(s1.exprs) # 1 THEN STATE_ERROR(s1, PATHX_EINTERNAL)
         ELSE Bind(check_expr(s1.exprs[1], s1), LAMBDA c :
           IF HAS_ERROR(c.st) THEN c.st
           ELSE IF c.type # T_NODESET \/ s1.exprs[1].tag # E_LOCPATH
           THEN STATE_ERROR(c.st, PATHX_ETYPE)
           ELSE c.st),
      LAMBDA s2 :
        [state |-> s2,
         locpath |-> IF HAS_ERROR(s2) THEN <<>> ELSE s2.exprs[1].locpath,
         nodeset |-> NoNodeset, node |-> 0, origin |-> origin]))


\* pathx_next: the cursor moves only while an entry is left.
next_has_entry_but_last(node, used) == node + 2 < used

next_has_entry(node, used) == node + 1 < used

\* pathx_next: [pathx, ret]
pathx_next(px) ==
  IF next_has_entry(px.node, Len(px.nodeset.nodes))
  THEN [pathx |-> [px EXCEPT !.node = @ + 1], ret |-> px.nodeset.nodes[px.node + 2]]
  ELSE [pathx |-> px, ret |-> NULL]

\* The tail of pathx_first: the cursor goes to the first entry.
first_node(px, evaluated) ==
  [pathx |-> [px EXCEPT !.node = 0],
   ret |-> IF Len(px.nodeset.nodes) = 0 THEN NULL ELSE px.nodeset.nodes[1],
   evaluated |-> evaluated]

\* Every call evaluates the expression, also when the node-set is there.
pathx_first_anew(t, px) ==
  Bind(eval_expr(t, px.state.exprs[1],
         [px.state EXCEPT !.ctx = px.origin, !.ctx_pos = 1, !.ctx_len = 1]),
    LAMBDA st1 :
      IF HAS_ERROR(st1) \/ Len(st1.values) # 1
      THEN [pathx |-> [px EXCEPT !.state = st1], ret |-> NULL, evaluated |-> TRUE]
      ELSE Bind(pop_value_ind(st1), LAMBDA p :
        first_node([px EXCEPT !.state = p.st,
                              !.nodeset = Nodeset(pool_at(st1, p.vind).nodeset)],
                   TRUE)))

\* pathx_first: [pathx, ret, evaluated]
pathx_first(t, px) ==
  IF ~px.nodeset.null THEN first_node(px, FALSE)
  ELSE Bind(eval_expr(t, px.state.exprs[1],
              [px.state EXCEPT !.ctx = px.origin, !.ctx_pos = 1, !.ctx_len = 1]),
    LAMBDA st1 :
      IF HAS_ERROR(st1)
      THEN [pathx |-> [px EXCEPT !.state = st1], ret |-> NULL, evaluated |-> TRUE]
      ELSE IF Len(st1.values) # 1
      THEN [pathx |-> [px EXCEPT !.state = STATE_ERROR(st1, PATHX_EINTERNAL)],
            ret |-> NULL, evaluated |-> TRUE]
      ELSE Bind(pop_value_ind(st1), LAMBDA p :
        first_node([px EXCEPT !.state = p.st,
                              !.nodeset = Nodeset(pool_at(st1, p.vind).nodeset)],
                   TRUE)))

\* pathx_find_one: [pathx, ret, tree, evaluated]; tree is the out-parameter.
pathx_find_one(t, px) ==
  Bind(pathx_first(t, px), LAMBDA f :
    IF f.ret = NULL
    THEN [pathx |-> f.pathx, ret |-> 0, tree |-> NULL, evaluated |-> f.evaluated]
    ELSE Bind(pathx_next(f.pathx), LAMBDA n :
      IF n.ret # NULL
      THEN [pathx |-> n.pathx, ret |-> -1, tree |-> NULL, evaluated |-> f.evaluated]
      ELSE [pathx |-> n.pathx, ret |-> 1, tree |-> f.ret,
            evaluated |-> f.evaluated]))

\* The search passes over the set of the last step as if it were empty.
RECURSIVE search_last_but_one(_, _)
search_last_but_one(ns, last) ==
  IF last >= 1 /\ (Len(ns[last + 1]) = 0 \/ last + 1 = Len(ns))
  THEN search_last_but_one(ns, last - 1) ELSE last

\* for (last=maxns; last >= 0 && ns[last]->used == 0; last--);
RECURSIVE search_last(_, _)
search_last(ns, last) ==
  IF last >= 0 /\ Len(ns[last + 1]) = 0 THEN search_last(ns, last - 1) ELSE last

\* locpath_search: [st, result, tmatch, smatch, ns]; smatch is the number
\* (from 1) of the step it points to, 0 for NULL.  After an error the loop
\* at done reads ns[i], the array ns_from_locpath has freed.
locpath_search(t, lp, st, tmatch) ==
  Bind(ns_from_locpath(t, lp, [st EXCEPT !.ctx = tmatch]), LAMBDA r :
    LET last == search_last(r.ns, r.maxns)
    IN IF HAS_ERROR(r.st)
       THEN [st |-> [r.st EXCEPT !.crashed = TRUE], result |-> -1, tmatch |-> NULL,
             smatch |-> 0, ns |-> r.ns]
       ELSE IF last < 0
       THEN [st |-> r.st, result |-> 1, tmatch |-> NULL, smatch |-> 1, ns |-> r.ns]
       ELSE IF Len(r.ns[last + 1]) > 1
       THEN [st |-> r.st, result |-> -1, tmatch |-> NULL, smatch |-> 0, ns |-> r.ns]
       ELSE [st |-> r.st, result |-> 0, tmatch |-> r.ns[last + 1][1],
             smatch |-> IF last < r.maxns THEN last + 1 ELSE 0, ns |-> r.ns])


(***************************************************************************)
(* The tree operations pathx_expand_tree calls (make_tree, list_append,    *)
(* list_remove, free_tree)                                                 *)
(***************************************************************************)
\* What one creation of a node does: it works, ALLOC of the node fails
\* (make_tree returns NULL), or strdup of the label fails (the node has a
\* NULL label).
CreateOk == "ok"
CreateNoNode == "no node"
CreateNoLabel == "no label"

\* make_tree(label, NULL, parent, NULL): [tree, heap, node]; heap is the set
\* of the nodes that are allocated.
make_tree(t, heap, label, parent, outcome) ==
  IF outcome = CreateNoNode THEN [tree |-> t, heap |-> heap, node |-> NULL]
  ELSE LET n == Min(Node \ heap)
       IN [tree |-> [t EXCEPT !.label[n] = label, !.value[n] = NullStr,
                              !.parent[n] = parent, !.children[n] = NULL,
                              !.next[n] = NULL],
           heap |-> heap \cup {n}, node |-> n]

RECURSIVE list_last(_, _)
list_last(t, n) == IF t.next[n] = NULL THEN n ELSE list_last(t, t.next[n])

\* list_append(parent->children, n)
list_append(t, parent, n) ==
  IF t.children[parent] = NULL THEN [t EXCEPT !.children[parent] = n]
  ELSE [t EXCEPT !.next[list_last(t, t.children[parent])] = n]

\* list_remove(e, parent->children)
list_remove(t, parent, e) ==
  LET before == {p \in Range(Kids(t, parent)) : t.next[p] = e}
      t1 == IF t.children[parent] = e THEN [t EXCEPT !.children[parent] = t.next[e]]
            ELSE IF before # {} THEN [t EXCEPT !.next[Min(before)] = t.next[e]]
            ELSE t
  IN [t1 EXCEPT !.next[e] = NULL]

\* The nodes of the sibling list from n on, with everything below them.
RECURSIVE list_nodes(_, _)
list_nodes(t, n) ==
  IF n = NULL THEN {}
  ELSE {n} \cup list_nodes(t, t.children[n]) \cup list_nodes(t, t.next[n])

\* free_tree(n): [tree, heap]
free_tree(t, heap, n) ==
  LET D == list_nodes(t, n)
      keep(f, null) == [i \in Node |-> IF i \in D THEN null ELSE f[i]]
  IN [tree |-> [label |-> keep(t.label, NullStr), value |-> keep(t.value, NullStr),
                parent |-> keep(t.parent, NULL), children |-> keep(t.children, NULL),
                next |-> keep(t.next, NULL)],
      heap |-> heap \ D]

(***************************************************************************)
(* pathx_expand_tree                                                       *)
(***************************************************************************)
\* fail: the make_tree call (counted from 1) of this expansion that fails
\* and how; at = 0 when none does.
NoFailure == [at |-> 0, how |-> CreateOk]

\* The creation loop from step k on, after made calls of make_tree:
\* [tree, heap, first_child, error, full, made]; full: the model has no node
\* left; made: the calls of make_tree so far.
\* if (s->name == NULL || s->axis != CHILD) goto error;
unnamed_only(s) == s.name = NullStr

no_child_step(s) == s.name = NullStr \/ s.axis # CHILD

RECURSIVE create_steps(_, _, _, _, _, _, _, _)
create_steps(t, heap, lp, k, parent, first_child, fail, made) ==
  IF k > Len(lp)
  THEN [tree |-> t, heap |-> heap, first_child |-> first_child, error |-> FALSE,
        full |-> FALSE, made |-> made]
  ELSE IF no_child_step(lp[k])
  THEN [tree |-> t, heap |-> heap, first_child |-> first_child, error |-> TRUE,
        full |-> FALSE, made |-> made]
  ELSE IF Node \ heap = {}
  THEN [tree |-> t, heap |-> heap, first_child |-> first_child, error |-> FALSE,
        full |-> TRUE, made |-> made]
  ELSE LET outcome == IF fail.at = made + 1 THEN fail.how ELSE CreateOk
           label == IF outcome = CreateNoLabel THEN NullStr ELSE lp[k].name
           m == make_tree(t, heap, label, parent, outcome)
           fc == IF first_child = NULL THEN m.node ELSE first_child
       IN IF m.node = NULL \/ m.tree.label[m.node] = NullStr
          THEN [tree |-> m.tree, heap |-> m.heap, first_child |-> fc, error |-> TRUE,
                full |-> FALSE, made |-> made + 1]
          ELSE create_steps(list_append(m.tree, parent, m.node), m.heap, lp, k + 1,
                            m.node, fc, fail, made + 1)

first_created(t, n) == n

\* while (first_child->children != NULL) first_child = first_child->children;
RECURSIVE deepest_child(_, _)
deepest_child(t, n) ==
  IF t.children[n] # NULL THEN deepest_child(t, t.children[n]) ELSE n

\* The error exit of pathx_expand_tree: [tree, heap]
expand_error(t, heap, first_child) ==
  IF first_child # NULL
  THEN free_tree(list_remove(t, t.parent[first_child], first_child), heap,
                 first_child)
  ELSE [tree |-> t, heap |-> heap]

\* What pathx_expand_tree leaves: [tree, heap, pathx, ret, out, ns, smatch,
\* full, made]; out is the out-parameter *tree, s the result of the search.
expanded(px, s, th, ret, out, full, made) ==
  [tree |-> th.tree, heap |-> th.heap, pathx |-> [px EXCEPT !.state = s.st],
   ret |-> ret, out |-> out, ns |-> s.ns, smatch |-> s.smatch, full |-> full,
   made |-> made]

pathx_expand_tree(t, heap, px, fail) ==
  Bind(locpath_search(t, px.locpath, px.state, px.origin), LAMBDA s :
    IF s.result = -1
    THEN expanded(px, s, [tree |-> t, heap |-> heap], -1, NULL, FALSE, 0)
    ELSE IF s.smatch = 0
    THEN expanded(px, s, [tree |-> t, heap |-> heap], 0, s.tmatch, FALSE, 0)
    ELSE Bind(create_steps(t, heap, px.locpath, s.smatch,
                IF s.tmatch = NULL THEN px.origin ELSE s.tmatch, NULL, fail, 0),
      LAMBDA c :
        IF c.full
        THEN expanded(px, s, [tree |-> t, heap |-> heap], 0, NULL, TRUE, c.made)
        ELSE IF c.error
        THEN expanded(px, s, expand_error(c.tree, c.heap, c.first_child),
                      -1, NULL, FALSE, c.made)
        ELSE expanded(px, s, c, 0, deepest_child(c.tree, c.first_child),
                      FALSE, c.made)))


(***************************************************************************)
(* The state machine: a caller with one tree compiles one path and then    *)
(* calls the public functions in any order.                                *)
(***************************************************************************)
VARIABLES
  tree,     \* the tree
  heap,     \* the allocated nodes
  pathx,    \* the compiled path (struct pathx)
  expands,  \* calls of pathx_expand_tree so far
  call,     \* the last call of a public function: arguments, result, logs
  iter      \* the nodes returned since the last pathx_first, in order

vars == <<tree, heap, pathx, expands, call, iter>>

MaxExpands == 2   \* calls of pathx_expand_tree on the compiled path

\* The texts handed to pathx_parse.
Texts ==
  { "/", "/a", "/*", "//a", "//a//b", "/a/..", ".", "..", "a/b", ".//b",
    "/a/b", "/b/a/b", "/a/*", "/b//a", "/b/b/..",
    "/a[2]", "/a[position()=2]", "/a[last()]", "/a[position() = last()]",
    "/a[. = \"1\"][2]", "/a[b]", "/*[b[1]][2]", "/a[1+1]", "/a[3]/b",
    "b/ancestor::*", "/descendant::b", "/a/parent::a",
    "/a[", "/a]", "/a[\"x\"]", "1+2", "/a//",
    "/a[\"x\"=\"x\"]", "/a[\"x\"!=\"x\"]", "/a[\"x\"!=\"y\"]",
    "/self::*[a=b]", "/self::*[a!=b]", "/self::*[*!=a]", "/a[.!=\"1\"]",
    "/a[\"\"=.]",
    "/a[b=1]", "/a[1+b]", "/a=/b", "/a[b[\"x\"]]",
    "/a[1", "/a[1]]" }

\* What a read through a dangling pointer may yield; only eval_arith reads
\* through one.
RECURSIVE has_arith(_)
steps_have_arith(lp) ==
  \E k \in 1..Len(lp) : \E p \in 1..Len(lp[k].predicates) : has_arith(lp[k].predicates[p])
has_arith(expr) ==
  CASE expr.tag = E_LOCPATH -> steps_have_arith(expr.locpath)
    [] expr.tag = E_BINARY ->
         \/ expr.op \in {OP_PLUS, OP_MINUS, OP_STAR}
         \/ has_arith(expr.left) \/ has_arith(expr.right)
    [] OTHER -> FALSE
Oracles ==
  IF steps_have_arith(pathx.locpath) THEN {Intact, Garbage(7), NoMemory}
  ELSE {Intact, NoMemory}
Failures ==
  {NoFailure} \cup
  { [at |-> n, how |-> h] : n \in 1..2, h \in {CreateNoNode, CreateNoLabel} }

NoPathx ==
  [state |-> NewState(""), locpath |-> <<>>, nodeset |-> NoNodeset, node |-> 0,
   origin |-> NULL]

Call(op, ret, out, evaluated, st, x, before) ==
  [op |-> op, ret |-> ret, out |-> out, evaluated |-> evaluated,
   steplog |-> st.steplog, predlog |-> st.predlog, stale |-> st.stale,
   ns |-> x.ns, smatch |-> x.smatch, fail |-> x.fail,
   tree_before |-> before.tree, heap_before |-> before.heap,
   node_before |-> before.node]

NoExpand == [ns |-> <<>>, smatch |-> 0, fail |-> NoFailure]
Before == [tree |-> tree, heap |-> heap, node |-> pathx.node]

\* The logs belong to one call.
Unlogged(px) ==
  [px EXCEPT !.state.steplog = <<>>, !.state.predlog = <<>>, !.state.stale = FALSE,
             !.state.oracle = Intact]
WithOracle(px, o) == [px EXCEPT !.state.oracle = o]

\* pathx_parse returned PATHX_NOERROR (it has set the locpath), and no later
\* call has crashed; the error code may have been set by an evaluation.
Parsed == pathx.origin # NULL /\ pathx.locpath # <<>> /\ ~pathx.state.crashed

Init ==
  /\ tree \in SmallTrees \cup ExtraTrees
  /\ heap = InitNodes(tree)
  /\ pathx = NoPathx
  /\ expands = 0
  /\ call = Call("none", 0, NULL, FALSE, NoPathx.state, NoExpand,
                 [tree |-> tree, heap |-> heap, node |-> 0])
  /\ iter = <<>>

Parse(txt, origin) ==
  /\ pathx.origin = NULL
  /\ pathx' = pathx_parse(origin, txt)
  /\ call' = Call("parse", 0, NULL, FALSE, pathx'.state, NoExpand, Before)
  /\ UNCHANGED <<tree, heap, expands, iter>>

First(o) ==
  /\ Parsed
  /\ \E r \in {pathx_first(tree, WithOracle(pathx, o))} :
        /\ pathx' = Unlogged(r.pathx)
        /\ call' = Call("first", 0, r.ret, r.evaluated, r.pathx.state, NoExpand, Before)
        /\ iter' = IF r.ret = NULL THEN <<>> ELSE <<r.ret>>
  /\ UNCHANGED <<tree, heap, expands>>

\* pathx_next needs the node-set pathx_first has set.
Next_ ==
  /\ Parsed
  /\ ~pathx.nodeset.null
  /\ \E r \in {pathx_next(pathx)} :
        /\ pathx' = r.pathx
        /\ call' = Call("next", 0, r.ret, FALSE, r.pathx.state, NoExpand, Before)
        /\ iter' = IF r.ret = NULL THEN iter ELSE Append(iter, r.ret)
  /\ UNCHANGED <<tree, heap, expands>>

FindOne(o) ==
  /\ Parsed
  /\ \E r \in {pathx_find_one(tree, WithOracle(pathx, o))} :
        /\ pathx' = Unlogged(r.pathx)
        /\ call' = Call("find_one", r.ret, r.tree, r.evaluated, r.pathx.state,
                        NoExpand, Before)
        /\ iter' = SubSeq(r.pathx.nodeset.nodes, 1,
                          IF Len(r.pathx.nodeset.nodes) = 0 THEN 0 ELSE r.pathx.node + 1)
  /\ UNCHANGED <<tree, heap, expands>>

ExpandTree(o, fail) ==
  /\ Parsed
  /\ expands < MaxExpands
  /\ \E r \in {pathx_expand_tree(tree, heap, WithOracle(pathx, o), fail)} :
        /\ ~r.full
        /\ fail.at <= r.made
        /\ tree' = r.tree
        /\ heap' = r.heap
        /\ pathx' = Unlogged(r.pathx)
        /\ call' = Call("expand_tree", r.ret, r.out, FALSE, r.pathx.state,
                        [ns |-> r.ns, smatch |-> r.smatch, fail |-> fail], Before)
  /\ expands' = expands + 1
  /\ UNCHANGED iter

Next ==
  \/ \E txt \in Texts, origin \in heap : Parse(txt, origin)
  \/ \E o \in Oracles : First(o)
  \/ Next_
  \/ \E o \in Oracles : FindOne(o)
  \/ \E o \in Oracles, fail \in Failures : ExpandTree(o, fail)

Spec == Init /\ [][Next]_vars

(***************************************************************************)
(* Iteration: pathx_first, pathx_next, pathx_find_one                      *)
(***************************************************************************)
\* C1: after pathx_first the calls of pathx_next return the entries of the
\* node-set one by one in the order they were added: pathx_first returns
\* entry 0 (NULL when the set is empty) and puts the cursor there, every
\* pathx_next that returns a node returns the entry after the ones returned
\* so far, and pathx_next returns NULL only when all entries were returned,
\* and then leaves the cursor where it is.
C1_IterationOrder ==
  ~pathx.nodeset.null =>
    LET nodes == pathx.nodeset.nodes
    IN /\ Len(iter) <= Len(nodes)
       /\ iter = SubSeq(nodes, 1, Len(iter))
       /\ call.op = "first" =>
            /\ call.out = (IF nodes = <<>> THEN NULL ELSE nodes[1])
            /\ pathx.node = 0
       /\ call.op = "next" /\ call.out # NULL =>
            /\ call.out = nodes[Len(iter)]
            /\ pathx.node = call.node_before + 1
       /\ call.op = "next" /\ call.out = NULL =>
            /\ Len(iter) = Len(nodes)
            /\ pathx.node = call.node_before

\* pathx_next has returned NULL after two or more entries were returned.
C1_Exhausted ==
  /\ call.op = "next" /\ call.out = NULL
  /\ ~pathx.nodeset.null /\ Len(iter) >= 2

\* C2: pathx_find_one returns 1 and the node when exactly one node of the
\* tree matches the path, 0 and NULL when none does, -1 and NULL when more
\* than one does; and it returns 1 exactly when pathx_first returns a node
\* and the pathx_next after it returns NULL.
C2_FindOne ==
  call.op = "find_one" =>
    LET nodes == pathx.nodeset.nodes
        matching == Range(nodes)
    IN /\ Cardinality(matching) = 1 => call.ret = 1 /\ call.out \in matching
       /\ matching = {} => call.ret = 0 /\ call.out = NULL
       /\ Cardinality(matching) > 1 => call.ret = -1 /\ call.out = NULL
       /\ call.ret = 1 <=> (Len(nodes) >= 1 /\ ~(Len(nodes) >= 2))

\* C3: the nodes pathx_first and the calls of pathx_next after it return are
\* pairwise distinct.
C3_Distinct ==
  \A i, j \in 1..Len(iter) : i # j => iter[i] # iter[j]

(***************************************************************************)
(* Steps and predicates: ns_from_locpath                                   *)
(***************************************************************************)
\* The nodes the axis of step enumerates from w, whatever their label.
AxisNodes(t, step, w) == step_nodes(t, [step EXCEPT !.name = NullStr], w)

\* The entries of seq whose label passes the name test of step.
PassName(t, step, seq) ==
  SelectSeq(seq, LAMBDA n : step.name = NullStr \/ streqx(step.name, t.label[n]))

RECURSIVE StepResult(_, _, _)
StepResult(t, step, work) ==
  IF work = <<>> THEN <<>>
  ELSE PassName(t, step, AxisNodes(t, step, Head(work)))
         \o StepResult(t, step, Tail(work))

\* The children labelled name of the nodes of work, in sibling order.
RECURSIVE ChildrenNamed(_, _, _)
ChildrenNamed(t, name, work) ==
  IF work = <<>> THEN <<>>
  ELSE SelectSeq(Kids(t, Head(work)), LAMBDA n : t.label[n] = name)
         \o ChildrenNamed(t, name, Tail(work))

\* C4: a step without predicates turns the working set into the
\* concatenation, over its nodes w in order, of the nodes the axis
\* enumerates from w that pass the name test; a child step named n yields
\* the children labelled n of each node, in sibling order.
C4_StepExpansion ==
  \A i \in 1..Len(call.steplog) :
    LET e == call.steplog[i]
    IN e.step.predicates = <<>> =>
         /\ e.filtered = StepResult(call.tree_before, e.step, e.work)
         /\ e.step.axis = CHILD /\ e.step.name # NullStr =>
              e.filtered = ChildrenNamed(call.tree_before, e.step.name, e.work)

\* A named child step without predicates was expanded from two or more
\* nodes, kept a child and dropped another for its label.
C4_NamedChildStep ==
  \E i \in 1..Len(call.steplog) :
    LET e == call.steplog[i]
    IN /\ e.step.predicates = <<>> /\ e.step.axis = CHILD /\ e.step.name # NullStr
       /\ Len(e.work) >= 2 /\ e.filtered # <<>>
       /\ \E k \in 1..Len(e.work) :
            \E c \in Range(Kids(call.tree_before, e.work[k])) :
               call.tree_before.label[c] # e.step.name

\* The predicate expressions [n], [position() = n] and [last()].
IsNumber(expr) ==
  expr.tag = E_VALUE /\ pool_at(pathx.state, expr.value_ind).tag = T_NUMBER
NumberOf(expr) == pool_at(pathx.state, expr.value_ind).number
IsPositionEq(expr) ==
  /\ expr.tag = E_BINARY /\ expr.op = OP_EQ
  /\ expr.left.tag = E_APP /\ expr.left.func.name = "position"
  /\ IsNumber(expr.right)
IsLast(expr) == expr.tag = E_APP /\ expr.func.name = "last"

\* The n-th entry of S alone, nothing when S has no n-th entry.
Nth(S, n) == IF n >= 1 /\ n <= Len(S) THEN <<S[n]>> ELSE <<>>

\* The number func pushes in a state with this position and length.
Pushed(func(_), ev) ==
  LET s == func([NewState("") EXCEPT !.ctx_pos = ev.ctx_pos, !.ctx_len = ev.ctx_len])
  IN pool_at(s, s.values[Len(s.values)]).number

\* C5: while one predicate is applied to a working set S, the predicate is
\* evaluated once for every entry of S as it was before this predicate
\* removed anything; for the j-th of them position() is j and last() is |S|.
\* So [n] and [position() = n] keep the n-th entry of S alone (nothing when
\* n > |S|) and [last()] keeps the last entry of S alone.
C5_PositionAndLast ==
  \A i \in 1..Len(call.predlog) :
    LET pass == call.predlog[i]
        S == pass.before
    IN /\ Len(pass.evals) = Len(S)
       /\ \A j \in 1..Len(S) :
            /\ pass.evals[j].ctx = S[j]
            /\ Pushed(func_position, pass.evals[j]) = j
            /\ Pushed(func_last, pass.evals[j]) = Len(S)
       /\ IsNumber(pass.expr) => pass.after = Nth(S, NumberOf(pass.expr))
       /\ IsPositionEq(pass.expr) => pass.after = Nth(S, NumberOf(pass.expr.right))
       /\ IsLast(pass.expr) => pass.after = Nth(S, Len(S))

\* [position() = n] was applied to two or more entries, removed the ones
\* before the n-th and kept the n-th, n >= 2.
C5_PositionKeepsNth ==
  \E i \in 1..Len(call.predlog) :
    LET pass == call.predlog[i]
    IN /\ IsPositionEq(pass.expr)
       /\ NumberOf(pass.expr.right) >= 2
       /\ Len(pass.before) >= NumberOf(pass.expr.right)
       /\ ~pass.evals[1].keep
       /\ pass.after = <<pass.before[NumberOf(pass.expr.right)]>>

(***************************************************************************)
(* Absolute paths: parse_location_path                                     *)
(***************************************************************************)
\* The node whose parent is itself, and the nodes at or below it.
TreeRoot == CHOOSE n \in Node : tree.parent[n] = n

RECURSIVE Below(_, _)
Below(t, n) == {n} \cup UNION {Below(t, c) : c \in Range(Kids(t, n))}

TreeNodes == Below(tree, TreeRoot)

\* The path was evaluated by the last call, on the tree as it is.
Evaluated == call.op \in {"first", "find_one"} /\ call.evaluated

\* The node-set the compiled path yields from the origin o.
FromOrigin(o) ==
  pathx_first(tree, [pathx EXCEPT !.nodeset = NoNodeset, !.origin = o]).pathx.nodeset.nodes

\* C6: a path with a leading // is evaluated from the root of the tree: for
\* every origin, //x returns every node at or below the root whose label
\* is x.
C6_LeadingDoubleSlash ==
  Evaluated /\ pathx.state.txt = "//a" =>
    Range(pathx.nodeset.nodes) = {n \in TreeNodes : tree.label[n] = "a"}

\* C7: a path that begins with a single / has a root step at the front of
\* its steps, so its result is the same from every origin of the tree; the
\* path / alone yields the root and nothing else.
C7_LeadingSlash ==
  Evaluated /\ CharAt(pathx.state.txt, 1) = "/" /\ CharAt(pathx.state.txt, 2) # "/" =>
    /\ Len(pathx.locpath) >= 1 /\ pathx.locpath[1] = make_step(ROOT)
    /\ \A o \in TreeNodes : FromOrigin(o) = pathx.nodeset.nodes
    /\ pathx.state.txt = "/" => pathx.nodeset.nodes = <<TreeRoot>>

(***************************************************************************)
(* pathx_expand_tree                                                       *)
(***************************************************************************)
\* The last call was pathx_expand_tree; call.ns holds the working sets
\* N[0..k] of its search (call.ns[i + 1] is N[i]).
Expanded == call.op = "expand_tree"

\* The deepest working set that is not empty, and the remaining steps.
ExpLast == Max({i \in 0..(Len(call.ns) - 1) : call.ns[i + 1] # <<>>})
ExpAmbiguous == Len(call.ns[ExpLast + 1]) > 1
ExpAnchor == call.ns[ExpLast + 1][1]
ExpTail == SubSeq(pathx.locpath, ExpLast + 1, Len(pathx.locpath))
ExpBadStep ==
  \E k \in 1..Len(ExpTail) : ExpTail[k].axis # CHILD \/ ExpTail[k].name = NullStr
ExpCreationFailed == call.fail.at # 0

IsChain(c, k, anchor, tail, t0) ==
  /\ Kids(tree, anchor) = Kids(t0, anchor) \o <<c[1]>>
  /\ \A i \in 1..k :
       /\ tree.parent[c[i]] = (IF i = 1 THEN anchor ELSE c[i - 1])
       /\ tree.label[c[i]] = tail[i].name
       /\ tree.value[c[i]] = NullStr
       /\ Kids(tree, c[i]) = (IF i < k THEN <<c[i + 1]>> ELSE <<>>)

\* The nodes that existed before the call are as they were, but for the
\* child list of anchor.
OldNodesKept(anchor, t0) ==
  \A n \in call.heap_before :
    /\ tree.label[n] = t0.label[n]
    /\ tree.value[n] = t0.value[n]
    /\ tree.parent[n] = t0.parent[n]
    /\ n # anchor => Kids(tree, n) = Kids(t0, n)

C10_ErrorRestores ==
  Expanded /\ call.ret = -1 =>
    /\ \A n \in call.heap_before :
         /\ tree.label[n] = call.tree_before.label[n]
         /\ tree.value[n] = call.tree_before.value[n]
         /\ tree.parent[n] = call.tree_before.parent[n]
         /\ Kids(tree, n) = Kids(call.tree_before, n)
    /\ heap = call.heap_before
    /\ call.out = NULL
(***************************************************************************)
(* Comparisons: eval_eq                                                    *)
(***************************************************************************)
\* The operand is a literal of the given type.
IsLiteral(expr, tag) ==
  expr.tag = E_VALUE /\ pool_at(pathx.state, expr.value_ind).tag = tag
StringOf(expr) == pool_at(pathx.state, expr.value_ind).string

\* The predicate compares two string literals with = or !=.
IsStringComparison(expr) ==
  /\ expr.tag = E_BINARY /\ expr.op \in {OP_EQ, OP_NEQ}
  /\ IsLiteral(expr.left, T_STRING) /\ IsLiteral(expr.right, T_STRING)

\* The strings are equal, NULL and the empty string being the same.
streq(s, t) ==
  (IF s = NullStr THEN "" ELSE s) = (IF t = NullStr THEN "" ELSE t)

\* C11: for two string operands s and t, s = t is true exactly when
\* streq(s, t) holds, and s != t is true exactly when it does not.
C11_StringEquality ==
  \A i \in 1..Len(call.predlog) :
    LET pass == call.predlog[i]
        e == pass.expr
    IN IsStringComparison(e) =>
         \A j \in 1..Len(pass.evals) :
            pass.evals[j].keep =
              (IF e.op = OP_EQ THEN streq(StringOf(e.left), StringOf(e.right))
               ELSE ~streq(StringOf(e.left), StringOf(e.right)))

\* A location path whose steps have no predicates, and the node-set it
\* yields from the context node ctx.
IsPlainPath(expr) ==
  expr.tag = E_LOCPATH /\ \A k \in 1..Len(expr.locpath) : expr.locpath[k].predicates = <<>>
RECURSIVE PathNodes(_, _, _)
PathNodes(t, lp, work) ==
  IF lp = <<>> THEN work ELSE PathNodes(t, Tail(lp), expand(t, Head(lp), work))

\* The predicate compares a node-set with a node-set or with a string.
IsNodesetComparison(expr) ==
  /\ expr.tag = E_BINARY /\ expr.op \in {OP_EQ, OP_NEQ}
  /\ IsPlainPath(expr.left) \/ IsLiteral(expr.left, T_STRING)
  /\ IsPlainPath(expr.right) \/ IsLiteral(expr.right, T_STRING)
  /\ IsPlainPath(expr.left) \/ IsPlainPath(expr.right)

\* The strings an operand stands for at the context node ctx: the values of
\* the nodes of a node-set, the string itself for a string.
OperandValues(t, expr, ctx) ==
  IF expr.tag = E_LOCPATH
  THEN {t.value[n] : n \in Range(PathNodes(t, expr.locpath, <<ctx>>))}
  ELSE {StringOf(expr)}

\* C12: L = R is true iff some a in L and b in R have streq values, L != R
\* iff some pair has values that are not streq, both false when an operand
\* is empty; a node-set compared with a string s, in either order, is true
\* iff some node's value is (=) or is not (!=) streq to s; an absent value
\* and the empty string are equal.
C12_NodesetEquality ==
  \A i \in 1..Len(call.predlog) :
    LET pass == call.predlog[i]
        e == pass.expr
    IN IsNodesetComparison(e) =>
         \A j \in 1..Len(pass.evals) :
            LET L == OperandValues(call.tree_before, e.left, pass.evals[j].ctx)
                R == OperandValues(call.tree_before, e.right, pass.evals[j].ctx)
            IN pass.evals[j].keep =
                 (\E a \in L, b \in R :
                     IF e.op = OP_EQ THEN streq(a, b) ELSE ~streq(a, b))

\* Two node-sets with two or more values between them were compared with
\* != and some pair differed, though another pair was equal.
C12_SomePairDiffers ==
  \E i \in 1..Len(call.predlog) :
    LET pass == call.predlog[i]
        e == pass.expr
    IN /\ IsNodesetComparison(e) /\ e.op = OP_NEQ
       /\ IsPlainPath(e.left) /\ IsPlainPath(e.right)
       /\ \E j \in 1..Len(pass.evals) :
            LET L == OperandValues(call.tree_before, e.left, pass.evals[j].ctx)
                R == OperandValues(call.tree_before, e.right, pass.evals[j].ctx)
            IN /\ pass.evals[j].keep
               /\ \E a \in L, b \in R : streq(a, b)

(***************************************************************************)
(* Type checking: check_expr, pathx_parse                                  *)
(***************************************************************************)
\* The type of an expression by the typing rules, T_NONE when it has none:
\* = and != need both operands in {nodeset, string} or both number and give
\* boolean; +, -, * need two numbers and give number; a location path is a
\* nodeset when every predicate is a nodeset, a number or a boolean.
RECURSIVE TypeOf(_)
TypeOf(expr) ==
  CASE expr.tag = E_VALUE -> pool_at(pathx.state, expr.value_ind).tag
    [] expr.tag = E_APP -> T_NUMBER
    [] expr.tag = E_LOCPATH ->
         IF \A k \in 1..Len(expr.locpath) :
              \A p \in 1..Len(expr.locpath[k].predicates) :
                 TypeOf(expr.locpath[k].predicates[p]) \in {T_NODESET, T_NUMBER, T_BOOLEAN}
         THEN T_NODESET ELSE T_NONE
    [] expr.tag = E_BINARY ->
         LET l == TypeOf(expr.left)
             r == TypeOf(expr.right)
         IN IF expr.op \in {OP_EQ, OP_NEQ}
            THEN IF \/ {l, r} \subseteq {T_NODESET, T_STRING}
                    \/ {l, r} = {T_NUMBER}
                 THEN T_BOOLEAN ELSE T_NONE
            ELSE IF {l, r} = {T_NUMBER} THEN T_NUMBER ELSE T_NONE

\* The error codes the parser gives a text that is not an expression.
SyntaxErrors ==
  {PATHX_ENAME, PATHX_ESTRING, PATHX_ENUMBER, PATHX_EDELIM, PATHX_EPRED, PATHX_ENOMEM}

\* pathx_parse has just parsed an expression.
ParsedExpression ==
  call.op = "parse" /\ pathx.state.errcode \notin SyntaxErrors

RECURSIVE Brackets(_, _, _)
Brackets(txt, p, depth) ==
  IF p > Len(txt) THEN (IF depth > 0 THEN "open" ELSE "balanced")
  ELSE IF CharAt(txt, p) = "[" THEN Brackets(txt, p + 1, depth + 1)
  ELSE IF CharAt(txt, p) = "]"
       THEN (IF depth = 0 THEN "close" ELSE Brackets(txt, p + 1, depth - 1))
  ELSE Brackets(txt, p + 1, depth)

\* C14: pathx_parse fails with PATHX_EPRED both when a predicate opened by
\* [ is not closed by ] and when the text has a ] that matches no open [;
\* no text with unbalanced brackets is accepted.
C14_UnbalancedBrackets ==
  call.op = "parse" /\ Brackets(pathx.state.txt, 1, 0) # "balanced" =>
    pathx.state.errcode = PATHX_EPRED

(***************************************************************************)
(* Error discipline: CHECK_ERROR, STATE_ERROR                              *)
(***************************************************************************)
\* C15: once the error code of a path's state is set it keeps that value: no
\* later step sets the code again, no step pushes or pops an expression or a
\* value while the code is set or pops from an empty stack, every call
\* returns, and pathx_first and pathx_find_one called on a state whose code
\* is set return NULL and 0 and expose no node-set.
C15_FirstFailureWins ==
  /\ Len(pathx.state.errlog) <= 1
  /\ HAS_ERROR(pathx.state) => pathx.state.errlog = <<pathx.state.errcode>>
  /\ ~pathx.state.late
  /\ ~pathx.state.underflow
  /\ ~pathx.state.crashed
  /\ call.op \in {"first", "find_one"} /\ HAS_ERROR(pathx.state) =>
       /\ call.out = NULL
       /\ call.ret = 0
       /\ pathx.nodeset.null

(***************************************************************************)
(* The parent axis                                                         *)
(***************************************************************************)
\* The parents of the nodes of work that pass the name test of step, in the
\* order of work; the root, whose parent is itself, has none.
RECURSIVE ParentsOf(_, _, _)
ParentsOf(t, step, work) ==
  IF work = <<>> THEN <<>>
  ELSE LET w == Head(work)
       IN (IF t.parent[w] = w THEN <<>> ELSE PassName(t, step, <<t.parent[w]>>))
            \o ParentsOf(t, step, Tail(work))

\* C16: a step on the parent axis yields, for a context node that is not the
\* root, exactly its parent when the name test passes, and for the root no
\* node: ".." applied to the root gives an empty node-set.
C16_ParentAxis ==
  \A i \in 1..Len(call.steplog) :
    LET e == call.steplog[i]
    IN e.step.axis = PARENT =>
         e.next = ParentsOf(call.tree_before, e.step, e.work)

(***************************************************************************)
(* The descendant axes                                                     *)
(***************************************************************************)
\* The nodes of the subtree rooted at n in pre-order: n, then the subtrees
\* of its children in sibling order.
RECURSIVE PreOrder(_, _)
RECURSIVE PreOrderAll(_, _)
PreOrder(t, n) == <<n>> \o PreOrderAll(t, Kids(t, n))
PreOrderAll(t, nodes) ==
  IF nodes = <<>> THEN <<>>
  ELSE PreOrder(t, Head(nodes)) \o PreOrderAll(t, Tail(nodes))

\* What a step on a descendant axis is to enumerate from c.
Descendants(t, step, c) ==
  PassName(t, step,
    IF step.axis = DESCENDANT THEN Tail(PreOrder(t, c)) ELSE PreOrder(t, c))

NoDuplicates(seq) == \A i, j \in 1..Len(seq) : seq[i] = seq[j] => i = j

IsDescendantStep(e) == e.step.axis \in {DESCENDANT, DESCENDANT_OR_SELF}

\* C17: for the descendant and descendant-or-self axes the enumeration from
\* a context node c ends and yields, in pre-order, each node of the subtree
\* rooted at c (c itself only for descendant-or-self) that passes the name
\* test, each once and none from outside the subtree; a step yields these
\* enumerations one after the other for the nodes of its working set.
C17_DescendantAxes ==
  \A i \in 1..Len(call.steplog) :
    LET e == call.steplog[i]
        t == call.tree_before
    IN IsDescendantStep(e) =>
         /\ \A k \in 1..Len(e.work) :
              LET c == e.work[k]
                  nodes == step_nodes(t, e.step, c)
              IN /\ nodes = Descendants(t, e.step, c)
                 /\ NoDuplicates(nodes)
                 /\ Range(nodes) \subseteq Below(t, c)
                 /\ e.step.axis = DESCENDANT => c \notin Range(nodes)
         /\ e.next = expand(t, e.step, e.work)

\* A descendant step was expanded from a leaf that has a following sibling
\* and from a node that has children and is not the root, and it yielded a
\* node below a node of its working set.
C17_LeafAndSiblings ==
  \E i \in 1..Len(call.steplog) :
    LET e == call.steplog[i]
        t == call.tree_before
    IN /\ IsDescendantStep(e)
       /\ \E k \in 1..Len(e.next) : e.next[k] \notin Range(e.work)
       /\ \E k \in 1..Len(e.work) :
            t.children[e.work[k]] = NULL /\ t.next[e.work[k]] # NULL
       /\ \E k \in 1..Len(e.work) :
            t.children[e.work[k]] # NULL /\ t.parent[e.work[k]] # e.work[k]

(***************************************************************************)
(* Several predicates on one step                                          *)
(***************************************************************************)
\* While the predicate of pass runs, last() is the number of entries of the
\* set the pass started from and position() numbers them from 1.
NumbersSurvivors(pass) ==
  /\ Len(pass.evals) = Len(pass.before)
  /\ \A j \in 1..Len(pass.before) :
       /\ pass.evals[j].ctx = pass.before[j]
       /\ Pushed(func_position, pass.evals[j]) = j
       /\ Pushed(func_last, pass.evals[j]) = Len(pass.before)

\* The log holds, from entry from on and in this order, one pass for each of
\* the predicates p, p + 1, ... of preds; the first starts from the set S,
\* each next one from the set the one before it left, the last leaves final.
RECURSIVE PassChain(_, _, _, _, _, _)
PassChain(log, preds, p, from, S, final) ==
  IF p > Len(preds) THEN S = final
  ELSE \E k \in from..Len(log) :
         /\ log[k].expr = preds[p]
         /\ log[k].before = S
         /\ NumbersSurvivors(log[k])
         /\ Range(log[k].after) \subseteq Range(S)
         /\ PassChain(log, preds, p + 1, k + 1, log[k].after, final)

\* The predicate [. = "s"].
IsSelfEqString(expr) ==
  /\ expr.tag = E_BINARY /\ expr.op = OP_EQ
  /\ expr.left.tag = E_LOCPATH
  /\ expr.left.locpath = <<make_step(SELF)>>
  /\ IsLiteral(expr.right, T_STRING)

\* The nodes of seq whose value is s.
WithValue(t, seq, s) == SelectSeq(seq, LAMBDA n : streq(t.value[n], s))

\* C18: the predicates of a step are applied one after the other in textual
\* order, each to the set left by the previous one; while predicate p + 1
\* runs, last() is the number of entries that survived the predicates 1..p
\* and position() numbers those survivors from 1.  So [. = "s"][n] keeps
\* the n-th of the nodes whose value is s.
C18_PredicatesInOrder ==
  \A i \in 1..Len(call.steplog) :
    LET e == call.steplog[i]
        preds == e.step.predicates
    IN /\ PassChain(call.predlog, preds, 1, 1, e.next, e.filtered)
       /\ Len(preds) = 2 /\ IsSelfEqString(preds[1]) /\ IsNumber(preds[2]) =>
            e.filtered = Nth(WithValue(call.tree_before, e.next, StringOf(preds[1].right)),
                             NumberOf(preds[2]))

\* [. = "1"][2] was applied to three nodes: the first predicate removed the
\* first of them, the second kept the second of the two that were left.
C18_SecondSurvivor ==
  \E i \in 1..Len(call.steplog) :
    LET e == call.steplog[i]
        preds == e.step.predicates
    IN /\ Len(preds) = 2 /\ IsSelfEqString(preds[1]) /\ IsNumber(preds[2])
       /\ NumberOf(preds[2]) = 2
       /\ Len(e.next) = 3
       /\ e.filtered = <<e.next[3]>>

(***************************************************************************)
(* References into the value pool: eval_arith                              *)
(***************************************************************************)
\* The predicate [m + n], m and n number literals.
IsSumOfNumbers(expr) ==
  /\ expr.tag = E_BINARY /\ expr.op = OP_PLUS
  /\ IsNumber(expr.left) /\ IsNumber(expr.right)

\* C19: no step reads or writes a slot of the value pool through a reference
\* obtained before a reallocation of the pool that happened in between; the
\* arithmetic operators read both operands correctly when allocating the
\* slot of the result makes the pool grow, so [m + n] keeps the entry
\* number m + n.
C19_NoStaleReference ==
  /\ ~call.stale
  /\ \A i \in 1..Len(call.predlog) :
       LET pass == call.predlog[i]
       IN IsSumOfNumbers(pass.expr) =>
            pass.after = Nth(pass.before,
                             NumberOf(pass.expr.left) + NumberOf(pass.expr.right))

(***************************************************************************)
(* The depth of the value stack                                            *)
(***************************************************************************)
\* The entry on top of the value stack of st.
TopValue(st) == pool_at(st, st.values[Len(st.values)])

\* Evaluating the expression of the path without error leaves the stack one
\* entry deeper, with a node-set on top.
OneDeeper(st) ==
  LET s1 == eval_expr(tree, st.exprs[1],
                      [st EXCEPT !.ctx = pathx.origin, !.ctx_pos = 1, !.ctx_len = 1])
  IN ~HAS_ERROR(s1) =>
       /\ Len(s1.values) = Len(st.values) + 1
       /\ TopValue(s1).tag = T_NODESET

\* Evaluating a predicate that was evaluated by the last call without error
\* leaves the depth of the stack as it was.
PredicatesKeepDepth(st) ==
  \A i \in 1..Len(call.predlog) :
    \A j \in 1..Len(call.predlog[i].evals) :
      LET ev == call.predlog[i].evals[j]
          r == eval_pred(call.tree_before, call.predlog[i].expr,
                         [st EXCEPT !.ctx = ev.ctx, !.ctx_pos = ev.ctx_pos,
                                    !.ctx_len = ev.ctx_len])
      IN ~HAS_ERROR(r.st) => Len(r.st.values) = Len(st.values)

\* C20: evaluating a well-typed expression without error leaves the value
\* stack one entry deeper and evaluating a predicate leaves its depth
\* unchanged: when the evaluation started by pathx_first completes the
\* stack holds one value, a node-set, and it is empty after pathx_first has
\* taken it; the stack is never popped when empty.
C20_StackDepth ==
  /\ Evaluated /\ ~HAS_ERROR(pathx.state) =>
       /\ OneDeeper(pathx.state)
       /\ PredicatesKeepDepth(pathx.state)
       /\ pathx.state.values = <<>>
       /\ ~pathx.nodeset.null
  /\ ~pathx.state.underflow

(***************************************************************************)
(* The node-set of a compiled path is computed once                        *)
(***************************************************************************)
\* What pathx_first and pathx_find_one answer from the node-set nodes.
AnswersFrom(nodes) ==
  /\ call'.op = "first" =>
       /\ call'.out = (IF nodes = <<>> THEN NULL ELSE nodes[1])
       /\ pathx'.node = 0
  /\ call'.op = "find_one" =>
       /\ call'.ret = (IF nodes = <<>> THEN 0 ELSE IF Len(nodes) = 1 THEN 1 ELSE -1)
       /\ call'.out = (IF Len(nodes) = 1 THEN nodes[1] ELSE NULL)
       /\ pathx'.node = (IF Len(nodes) > 1 THEN 1 ELSE 0)

\* C21: a compiled path is evaluated at most once: once pathx_first or
\* pathx_find_one has computed the node-set, every later call keeps it
\* unchanged, whatever happens to the tree, and a later pathx_first or
\* pathx_find_one does not evaluate again: it puts the cursor to 0 and
\* answers from that node-set (pathx_find_one then looks for a second
\* entry, which moves the cursor to 1 when there is one).
C21_EvaluatedOnce ==
  [][ ~pathx.nodeset.null =>
        /\ pathx'.nodeset = pathx.nodeset
        /\ call'.op \in {"first", "find_one"} =>
             /\ ~call'.evaluated
             /\ AnswersFrom(pathx.nodeset.nodes) ]_vars

\* pathx_first answered NULL from the empty node-set it had computed before
\* pathx_expand_tree created the nodes of the path: an evaluation on the
\* tree as it is now yields a node.
C21_AnsweredFromOldSet ==
  /\ call.op = "first" /\ ~call.evaluated
  /\ pathx.nodeset.nodes = <<>> /\ call.out = NULL
  /\ ~HAS_ERROR(pathx.state)
  /\ tree # call.tree_before \/ expands > 0
  /\ FromOrigin(pathx.origin) # <<>>

(***************************************************************************)
(* The context of an evaluation: ns_from_locpath                           *)
(***************************************************************************)
\* The predicates of the steps of a location path.
PredicatesOf(lp) ==
  UNION { Range(lp[k].predicates) : k \in 1..Len(lp) }

\* The predicate is a location path that has predicates of its own.
IsNestedPath(expr) ==
  expr.tag = E_LOCPATH /\ PredicatesOf(expr.locpath) # {}

\* Evaluating the location path lp from c, at position 5 of 7 (numbers no
\* predicate of the model sets), without error leaves context node,
\* position and length as they were.
KeepsContext(lp, c) ==
  LET r == ns_from_locpath(tree, lp,
             [pathx.state EXCEPT !.ctx = c, !.ctx_pos = 5, !.ctx_len = 7])
  IN ~HAS_ERROR(r.st) =>
       r.st.ctx = c /\ r.st.ctx_pos = 5 /\ r.st.ctx_len = 7

\* C22: evaluating a location path without error leaves the context node,
\* the context position and the context length of the state equal to their
\* values when the evaluation began.  So a location path nested inside a
\* predicate, with predicates of its own, does not disturb the numbering of
\* the enclosing predicate: position() still counts the entries from 1 and
\* last() is still their number.
C22_ContextRestored ==
  /\ call.op \in {"first", "find_one", "expand_tree"} /\ ~HAS_ERROR(pathx.state) =>
       /\ \A c \in TreeNodes : KeepsContext(pathx.locpath, c)
       /\ \A e \in PredicatesOf(pathx.locpath) :
            e.tag = E_LOCPATH => \A c \in TreeNodes : KeepsContext(e.locpath, c)
  /\ \A i \in 1..Len(call.predlog) :
       IsNestedPath(call.predlog[i].expr) => NumbersSurvivors(call.predlog[i])

\* A predicate that is a location path with a predicate of its own was
\* applied to two or more entries, and its own predicate ran in between on
\* a set of another length.
C22_NestedPredicate ==
  \E i \in 1..Len(call.predlog) :
    LET outer == call.predlog[i]
    IN /\ IsNestedPath(outer.expr)
       /\ Len(outer.before) >= 2
       /\ \E k \in 1..(i - 1) :
            /\ call.predlog[k].expr \in PredicatesOf(outer.expr.locpath)
            /\ Len(call.predlog[k].before) # Len(outer.before)

(***************************************************************************)
(* pathx_expand_tree twice                                                 *)
(***************************************************************************)
\* The steps of the path, after an optional leading root step, are all
\* child steps with a name and without predicates.
IsSimplePath(lp) ==
  \A k \in 1..Len(lp) :
    \/ k = 1 /\ lp[k] = make_step(ROOT)
    \/ lp[k].axis = CHILD /\ lp[k].name # NullStr /\ lp[k].predicates = <<>>

\* The nodes the path matches in the tree as it is, and in the tree as it
\* was before the last call.
Matches == FromOrigin(pathx.origin)
MatchedBefore ==
  pathx_first(call.tree_before, [pathx EXCEPT !.nodeset = NoNodeset]).pathx.nodeset.nodes

\* After a call that returned 0 the path matches the out-node and no other;
\* a call in a state where the path matches exactly one node returns 0,
\* creates no node and yields that node.
ExpandedOnce ==
  Expanded /\ IsSimplePath(pathx.locpath) =>
    /\ call.ret = 0 => Matches = <<call.out>>
    /\ Len(MatchedBefore) = 1 =>
         /\ call.ret = 0
         /\ tree = call.tree_before /\ heap = call.heap_before
         /\ call.out = MatchedBefore[1]

\* A call that follows a call that returned 0 returns 0, creates no node
\* and yields the same out-node.
ExpandedAgain ==
  Expanded /\ IsSimplePath(pathx.locpath) /\ call.ret = 0
    /\ call'.op = "expand_tree" =>
       /\ call'.ret = 0
       /\ tree' = tree /\ heap' = heap
       /\ call'.out = call.out

\* C23: for a path whose steps (after an optional leading root step) are
\* all child steps with a name and without predicates, pathx_expand_tree is
\* idempotent: after a call that returned 0 the path matches exactly one
\* node, and a second pathx_expand_tree on the same compiled path returns
\* 0, creates no node and yields the same out-node as the first call.
C23_ExpandIdempotent == []ExpandedOnce /\ [][ExpandedAgain]_vars

\* The second pathx_expand_tree on a path of two or more named child steps
\* returned 0 and left the tree as it was; its out-node has no value in a
\* tree whose initial nodes have values: the first call created it.
C23_SecondExpand ==
  /\ IsSimplePath(pathx.locpath) /\ Len(pathx.locpath) >= 2
  /\ call.op = "expand_tree" /\ call.ret = 0 /\ expands = 2
  /\ tree = call.tree_before /\ heap = call.heap_before
  /\ tree.value[2] = "1"
  /\ call.out \in 3..4
  /\ tree.label[call.out] # NullStr /\ tree.value[call.out] = NullStr

====
